---- MODULE Spec2Model ----
(***************************************************************************)
(* FC-DLL: fc_open_uri and the Fedi-To get_fallback resolver (src/lib.rs). *)
(*                                                                         *)
(* Strings are sequences of bytes (Rust &str = UTF-8 bytes); a byte is a   *)
(* number in 0..255.  Rust indices are 0-based byte offsets; Slice(s,a,b)  *)
(* is &s[a..b].                                                            *)
(***************************************************************************)
EXTENDS Integers, Sequences, FiniteSets, TLC

VARIABLES input, pc, target, fallback, calls, asyncOp, ret

vars == <<input, pc, target, fallback, calls, asyncOp, ret>>

---------------------------------------------------------------------------
(* Bytes and literals *)

\* The printable ASCII characters in code order, 0x20 .. 0x7E (the grave accent,
\* 0x60, by name).
Printable ==
  << " ", "!", "\"", "#", "$", "%", "&", "'", "(", ")", "*", "+", ",", "-", ".", "/",
     "0", "1", "2", "3", "4", "5", "6", "7", "8", "9", ":", ";", "<", "=", ">", "?",
     "@", "A", "B", "C", "D", "E", "F", "G", "H", "I", "J", "K", "L", "M", "N", "O",
     "P", "Q", "R", "S", "T", "U", "V", "W", "X", "Y", "Z", "[", "\\", "]", "^", "_",
     "GRAVE", "a", "b", "c", "d", "e", "f", "g", "h", "i", "j", "k", "l", "m", "n", "o",
     "p", "q", "r", "s", "t", "u", "v", "w", "x", "y", "z", "{", "|", "}", "~" >>

\* The byte of each character: the tab, and the printable ones by position.
OrdTable ==
  [c \in {Printable[i] : i \in 1..Len(Printable)} \cup {"\t"} |->
     IF c = "\t" THEN 9 ELSE 31 + (CHOOSE i \in 1..Len(Printable) : Printable[i] = c)]

\* The byte of a character literal: b'c'.
Ord(c) == OrdTable[c]

\* The bytes of a string literal, written one character per element.
Str(chars) == [i \in 1..Len(chars) |-> Ord(chars[i])]

\* &s[a..b]
Slice(s, a, b) == SubSeq(s, a + 1, b)

\* str::starts_with
StartsWith(s, p) == Len(s) >= Len(p) /\ SubSeq(s, 1, Len(p)) = p

\* str::find(byte): the 0-based offset of the first occurrence, -1 for None.
Find(s, b) ==
  IF \E i \in 1..Len(s) : s[i] = b
    THEN (CHOOSE i \in 1..Len(s) : s[i] = b /\ \A j \in 1..(i - 1) : s[j] # b) - 1
    ELSE -1

\* str::is_char_boundary
IsCharBoundary(s, i) ==
  \/ i = 0
  \/ i = Len(s)
  \/ i > 0 /\ i < Len(s) /\ ~(s[i + 1] \in 128..191)

\* char::is_ascii_lowercase
IsAsciiLowercase(b) == b >= Ord("a") /\ b <= Ord("z")

\* std::str::from_utf8 succeeds on the bytes s (the well-formed sequences of
\* the Unicode standard, table 3-7).
RECURSIVE Utf8Valid(_)
Utf8Valid(s) ==
  LET n == Len(s)
      Cont(i) == i <= n /\ s[i] \in 128..191
      In(i, lo, hi) == i <= n /\ s[i] >= lo /\ s[i] <= hi
      Rest(k) == Utf8Valid(SubSeq(s, k + 1, n))
  IN IF n = 0 THEN TRUE
     ELSE IF s[1] < 128 THEN Rest(1)
     ELSE IF s[1] \in 194..223 THEN Cont(2) /\ Rest(2)
     ELSE IF s[1] = 224 THEN In(2, 160, 191) /\ Cont(3) /\ Rest(3)
     ELSE IF s[1] \in (225..236) \cup {238, 239} THEN Cont(2) /\ Cont(3) /\ Rest(3)
     ELSE IF s[1] = 237 THEN In(2, 128, 159) /\ Cont(3) /\ Rest(3)
     ELSE IF s[1] = 240 THEN In(2, 144, 191) /\ Cont(3) /\ Cont(4) /\ Rest(4)
     ELSE IF s[1] \in 241..243 THEN Cont(2) /\ Cont(3) /\ Cont(4) /\ Rest(4)
     ELSE IF s[1] = 244 THEN In(2, 128, 143) /\ Cont(3) /\ Cont(4) /\ Rest(4)
     ELSE FALSE

---------------------------------------------------------------------------
(* Percent-encoding *)

\* percent_encoding::CONTROLS: the C0 controls and DEL.
CONTROLS == (0..31) \cup {127}

\* const COMPONENT
COMPONENT ==
  CONTROLS
  \cup {Ord(" "), Ord("\""), Ord("#"), Ord("<"), Ord(">")}
  \cup {Ord("?"), Ord("GRAVE"), Ord("{"), Ord("}")}
  \cup {Ord("/"), Ord(":"), Ord(";"), Ord("="), Ord("@"), Ord("["), Ord("\\"),
        Ord("]"), Ord("^"), Ord("|")}
  \cup {Ord("$"), Ord("%"), Ord("&"), Ord("+"), Ord(",")}

\* One hexadecimal digit, upper case, as percent_encoding writes it.
HexDigit(d) == IF d < 10 THEN Ord("0") + d ELSE Ord("A") + (d - 10)

\* "%XX" for the byte b.
PercentByte(b) == <<Ord("%"), HexDigit(b \div 16), HexDigit(b % 16)>>

\* percent_encoding::percent_encode(bytes, set): a byte is escaped when it is
\* not ASCII or belongs to the set.
RECURSIVE PercentEncode(_, _)
PercentEncode(s, set) ==
  IF s = <<>> THEN <<>>
  ELSE (IF s[1] >= 128 \/ s[1] \in set THEN PercentByte(s[1]) ELSE <<s[1]>>)
       \o PercentEncode(Tail(s), set)

\* Mutant: the target is encoded under CONTROLS alone.
utf8_percent_encode_controls(s) == PercentEncode(s, CONTROLS)

\* utf8_percent_encode(&*target, COMPONENT)
utf8_percent_encode(s) == PercentEncode(s, COMPONENT)

---------------------------------------------------------------------------
(* url::Url, for the inputs get_fallback hands it: strings that begin with    *)
(* "https://".  The parser is the WHATWG URL parser; what is modelled is the  *)
(* part that decides whether the parse succeeds and which host and port it    *)
(* yields: the trimming and the ignored tab and newline characters, the run   *)
(* of slashes after the scheme, the authority with its userinfo, the host     *)
(* (percent-decoding, ASCII lower-casing, forbidden code points, a numeric    *)
(* host read as an IPv4 address) and the port.  Path, query and fragment are  *)
(* kept as written: get_fallback overwrites each of them.  Host forms that    *)
(* need tables of their own (IPv6 literals, non-ASCII labels and their         *)
(* Punycode form, dotted, hexadecimal or 10-digit IPv4) are "unmodelled";       *)
(* ParserDomain states that no input drawn here reaches them.                  *)

\* Option::None for a string-valued field.
None == <<-1>>

\* The parser's c0_control_or_space
c0_control_or_space(b) == b <= 32

\* The characters the parser's Input skips wherever they stand.
ascii_tab_or_new_line(b) == b \in {9, 10, 13}

RECURSIVE TrimStart(_)
TrimStart(s) ==
  IF s # <<>> /\ c0_control_or_space(s[1]) THEN TrimStart(Tail(s)) ELSE s

RECURSIVE TrimEnd(_)
TrimEnd(s) ==
  IF s # <<>> /\ c0_control_or_space(s[Len(s)])
    THEN TrimEnd(SubSeq(s, 1, Len(s) - 1)) ELSE s

\* Input::new: trim, then skip tab and newline.
ParserInput(s) ==
  SelectSeq(TrimEnd(TrimStart(s)), LAMBDA b : ~ascii_tab_or_new_line(b))

\* The 1-based position of the first byte of s that is in set, Len(s)+1 if none.
FirstOf(s, set) ==
  IF \E i \in 1..Len(s) : s[i] \in set
    THEN CHOOSE i \in 1..Len(s) : s[i] \in set /\ \A j \in 1..(i - 1) : s[j] \notin set
    ELSE Len(s) + 1

\* The 1-based position of the last occurrence of b in s, 0 if none.
LastIndex(s, b) ==
  IF \E i \in 1..Len(s) : s[i] = b
    THEN CHOOSE i \in 1..Len(s) : s[i] = b /\ \A j \in (i + 1)..Len(s) : s[j] # b
    ELSE 0

\* The slashes and backslashes a special scheme's authority may follow: the
\* parser counts and skips all of them.
RECURSIVE SkipSlashes(_)
SkipSlashes(s) ==
  IF s # <<>> /\ s[1] \in {Ord("/"), Ord("\\")} THEN SkipSlashes(Tail(s)) ELSE s

IsDigit(b) == b >= Ord("0") /\ b <= Ord("9")

IsHexDigit(b) ==
  \/ IsDigit(b)
  \/ b >= Ord("a") /\ b <= Ord("f")
  \/ b >= Ord("A") /\ b <= Ord("F")

HexValue(b) ==
  IF IsDigit(b) THEN b - Ord("0")
  ELSE IF b >= Ord("a") THEN b - Ord("a") + 10 ELSE b - Ord("A") + 10

\* percent_encoding::percent_decode
RECURSIVE PercentDecode(_)
PercentDecode(s) ==
  IF s = <<>> THEN <<>>
  ELSE IF s[1] = Ord("%") /\ Len(s) >= 3 /\ IsHexDigit(s[2]) /\ IsHexDigit(s[3])
    THEN <<16 * HexValue(s[2]) + HexValue(s[3])>> \o PercentDecode(SubSeq(s, 4, Len(s)))
  ELSE <<s[1]>> \o PercentDecode(Tail(s))

\* ASCII lower-casing, the mapping domain_to_ascii applies to an ASCII label.
ToAsciiLower(s) ==
  [i \in 1..Len(s) |->
     IF s[i] >= Ord("A") /\ s[i] <= Ord("Z") THEN s[i] + 32 ELSE s[i]]

\* Host::parse's is_invalid_domain_char
ForbiddenHostCodePoint ==
  (0..32) \cup {127}
  \cup {Ord("#"), Ord("%"), Ord("/"), Ord(":"), Ord("<"), Ord(">"), Ord("?"),
        Ord("@"), Ord("["), Ord("\\"), Ord("]"), Ord("^"), Ord("|")}

\* The value of a run of digits in the given radix.
RECURSIVE DigitsValue(_, _)
DigitsValue(s, radix) ==
  IF s = <<>> THEN 0
  ELSE DigitsValue(SubSeq(s, 1, Len(s) - 1), radix) * radix + (s[Len(s)] - Ord("0"))

\* The decimal digits of n.
RECURSIVE Decimal(_)
Decimal(n) ==
  IF n < 10 THEN <<Ord("0") + n>> ELSE Decimal(n \div 10) \o <<Ord("0") + (n % 10)>>

\* Ipv4Addr's Display for the 32-bit address n.
Ipv4Text(n) ==
  Decimal(n \div 16777216) \o <<Ord(".")>> \o Decimal((n \div 65536) % 256)
  \o <<Ord(".")>> \o Decimal((n \div 256) % 256) \o <<Ord(".")>> \o Decimal(n % 256)

\* A host that is one run of decimal digits: parse_ipv4number reads it in
\* base 8 after a leading 0, else in base 10.  (Of at most 9 digits here, so
\* that the value fits the 32 bits of the address.)
NumericHost(d) ==
  LET octal == Len(d) >= 2 /\ d[1] = Ord("0")
      digits == IF octal THEN Tail(d) ELSE d
      valid == ~octal \/ \A i \in 1..Len(digits) : digits[i] <= Ord("7")
      value == DigitsValue(digits, IF octal THEN 8 ELSE 10)
  IN IF valid
       THEN [ok |-> TRUE, text |-> Ipv4Text(value)]
       ELSE [ok |-> FALSE, text |-> <<>>]

\* Host forms this model has no tables for.
UnmodelledHost(h) ==
  \/ h # <<>> /\ h[1] = Ord("[")
  \/ \E i \in 1..Len(PercentDecode(h)) : PercentDecode(h)[i] >= 128
  \/ \E i \in 1..Len(h) : h[i] = Ord(".")
  \/ StartsWith(ToAsciiLower(PercentDecode(h)), Str(<<"0", "x">>))
  \/ Len(h) > 9 /\ \A i \in 1..Len(h) : IsDigit(h[i])
  \/ StartsWith(ToAsciiLower(PercentDecode(h)), Str(<<"x", "n", "-", "-">>))

\* Host::parse for a special scheme: the serialized host, or failure.
HostParse(h) ==
  LET domain == ToAsciiLower(PercentDecode(h))
  IN IF UnmodelledHost(h) THEN [ok |-> FALSE, text |-> Str(<<"u", "n", "m", "o", "d", "e", "l", "l", "e", "d">>)]
     ELSE IF domain = <<>> THEN [ok |-> FALSE, text |-> <<>>]
     ELSE IF \E i \in 1..Len(domain) : domain[i] \in ForbiddenHostCodePoint
       THEN [ok |-> FALSE, text |-> <<>>]
     ELSE IF \A i \in 1..Len(domain) : IsDigit(domain[i]) THEN NumericHost(domain)
     ELSE [ok |-> TRUE, text |-> domain]

\* Parser::parse_port on the text after the host's ':': -1 is None, -2 failure.
\* The https default port, 443, is dropped.
PortParse(p) ==
  IF \E i \in 1..Len(p) : ~IsDigit(p[i]) THEN -2
  ELSE IF p = <<>> THEN -1
  ELSE IF DigitsValue(p, 10) > 65535 THEN -2
  ELSE IF DigitsValue(p, 10) = 443 THEN -1
  ELSE DigitsValue(p, 10)

ParseFailure ==
  [ok |-> FALSE, username |-> <<>>, password |-> None, host |-> <<>>, port |-> -1,
   path |-> <<>>, query |-> None, fragment |-> None]

\* The parser's split of its input after "https:": the userinfo, the host
\* and the port text of the authority, and what follows the authority.
UrlSplit(s) ==
  LET t == ParserInput(s)
      r == SkipSlashes(SubSeq(t, Len(Str(<<"h", "t", "t", "p", "s", ":">>)) + 1, Len(t)))
      authEnd == FirstOf(r, {Ord("/"), Ord("\\"), Ord("?"), Ord("#")})
      authority == SubSeq(r, 1, authEnd - 1)
      at == LastIndex(authority, Ord("@"))
      hostport == SubSeq(authority, at + 1, Len(authority))
      hostEnd == FirstOf(hostport, {Ord(":")})
  IN [userinfo |-> SubSeq(authority, 1, at - 1),
      host |-> SubSeq(hostport, 1, hostEnd - 1),
      port |-> SubSeq(hostport, hostEnd + 1, Len(hostport)),
      after |-> SubSeq(r, authEnd, Len(r))]

\* url::Url::parse(&*as_if_https)
UrlParse(s) ==
  LET parts == UrlSplit(s)
      userinfo == parts.userinfo
      after == parts.after
      userColon == FirstOf(userinfo, {Ord(":")})
      host == HostParse(parts.host)
      port == PortParse(parts.port)
      pathEnd == FirstOf(after, {Ord("?"), Ord("#")})
      hash == FirstOf(after, {Ord("#")})
  IN IF ~StartsWith(ParserInput(s), Str(<<"h", "t", "t", "p", "s", ":">>))
        \/ ~host.ok \/ port = -2
       THEN ParseFailure
     ELSE [ok |-> TRUE,
           username |-> SubSeq(userinfo, 1, userColon - 1),
           password |-> IF userColon > Len(userinfo) THEN None
                        ELSE SubSeq(userinfo, userColon + 1, Len(userinfo)),
           host |-> host.text,
           port |-> port,
           path |-> SubSeq(after, 1, pathEnd - 1),
           query |-> IF pathEnd > Len(after) \/ after[pathEnd] # Ord("?") THEN None
                     ELSE SubSeq(after, pathEnd + 1, hash - 1),
           fragment |-> IF hash > Len(after) THEN None
                        ELSE SubSeq(after, hash + 1, Len(after))]

\* The parser's QUERY set with the apostrophe a special scheme adds
\* (SPECIAL_QUERY): the set Url::set_query encodes an https query with.
SPECIAL_QUERY ==
  CONTROLS \cup {Ord(" "), Ord("\""), Ord("#"), Ord("<"), Ord(">"), Ord("'")}

\* url.set_path("/.well-known/protocol-handler")
set_path(url, p) == [url EXCEPT !.path = p]

\* url.set_username("")
set_username(url, u) == [url EXCEPT !.username = u]

\* url.set_password(None)
set_password(url, p) == [url EXCEPT !.password = p]

\* url.set_query(Some(&*params)): the query is stored percent-encoded under
\* the special-query set.
set_query(url, q) ==
  [url EXCEPT !.query =
     PercentEncode(SelectSeq(q, LAMBDA b : ~ascii_tab_or_new_line(b)), SPECIAL_QUERY)]

\* url.set_fragment(None)
set_fragment(url, f) == [url EXCEPT !.fragment = f]

\* url.into(): the serialization of the URL.
Serialize(url) ==
  Str(<<"h", "t", "t", "p", "s", ":", "/", "/">>)
  \o (IF url.username # <<>> \/ url.password # None
        THEN url.username
             \o (IF url.password # None THEN <<Ord(":")>> \o url.password ELSE <<>>)
             \o <<Ord("@")>>
        ELSE <<>>)
  \o url.host
  \o (IF url.port # -1 THEN <<Ord(":")>> \o Decimal(url.port) ELSE <<>>)
  \o url.path
  \o (IF url.query # None THEN <<Ord("?")>> \o url.query ELSE <<>>)
  \o (IF url.fragment # None THEN <<Ord("#")>> \o url.fragment ELSE <<>>)

---------------------------------------------------------------------------
(* get_fallback *)

Ok(text) == [kind |-> "Ok", text |-> text]
NotAnUrl == [kind |-> "NotAnUrl", text |-> <<>>]
NoHandler == [kind |-> "NoHandler", text |-> <<>>]
\* A slice or replace_range index out of bounds or off a character boundary.
Panic == [kind |-> "Panic", text |-> <<>>]

\* The scheme block ran to its end: no early return.
NoError == [kind |-> "None", text |-> <<>>]

\* str::trim_start_matches(|c| c.is_ascii_lowercase())
RECURSIVE trim_start_matches(_)
trim_start_matches(s) ==
  IF s # <<>> /\ IsAsciiLowercase(s[1]) THEN trim_start_matches(Tail(s)) ELSE s

\* Mutant: the emptiness test is forgotten.
is_scheme_invalid_nonempty_only(scheme) == trim_start_matches(scheme) # <<>>

is_scheme_invalid(scheme) ==
  scheme = <<>> \/ trim_start_matches(scheme) # <<>>

\* The literal "web+"
WebPlus == Str(<<"w", "e", "b", "+">>)

\* target.find(':')
find_colon(t) == Find(t, Ord(":"))

\* Mutant: the starts_with("web+") test is forgotten, so &scheme[4..] is
\* taken of any text before the colon.
find_scheme_unchecked_prefix(t) ==
  LET colon == Find(t, Ord(":"))
      scheme == Slice(t, 0, colon)
  IN IF colon = -1 THEN [err |-> NotAnUrl, scheme |-> <<>>]
     ELSE IF ~IsCharBoundary(t, colon) THEN [err |-> Panic, scheme |-> <<>>]
     ELSE IF Len(WebPlus) > Len(scheme) \/ ~IsCharBoundary(scheme, Len(WebPlus))
       THEN [err |-> Panic, scheme |-> <<>>]
     ELSE IF is_scheme_invalid(Slice(scheme, Len(WebPlus), Len(scheme)))
       THEN [err |-> NotAnUrl, scheme |-> <<>>]
     ELSE [err |-> NoError, scheme |-> Slice(scheme, Len(WebPlus), Len(scheme))]

\* The block that finds the scheme: the scheme name, or the error (or panic)
\* the block leaves get_fallback with.
find_scheme(t) ==
  LET colon == find_colon(t)
      scheme == Slice(t, 0, colon)
  IN IF colon = -1 THEN [err |-> NotAnUrl, scheme |-> <<>>]
     ELSE IF ~IsCharBoundary(t, colon) THEN [err |-> Panic, scheme |-> <<>>]
     ELSE IF ~StartsWith(scheme, WebPlus) THEN [err |-> NotAnUrl, scheme |-> <<>>]
     ELSE IF Len(WebPlus) > Len(scheme) \/ ~IsCharBoundary(scheme, Len(WebPlus))
       THEN [err |-> Panic, scheme |-> <<>>]
     ELSE IF is_scheme_invalid(Slice(scheme, Len(WebPlus), Len(scheme)))
       THEN [err |-> NotAnUrl, scheme |-> <<>>]
     ELSE [err |-> NoError, scheme |-> Slice(scheme, Len(WebPlus), Len(scheme))]

\* The end of the range replace_range overwrites: 4+scheme.len()
replace_end(scheme) == Len(WebPlus) + Len(scheme)

\* as_if_https.replace_range(0..4+scheme.len(), "https"); None stands for the
\* panic of a range that is out of bounds or off a character boundary.
as_if_https_of(t, scheme) ==
  IF replace_end(scheme) > Len(t) \/ ~IsCharBoundary(t, replace_end(scheme)) THEN None
  ELSE Str(<<"h", "t", "t", "p", "s">>) \o Slice(t, replace_end(scheme), Len(t))

\* The two checks that the rewritten string has a non-empty authority.
has_authority(as_if_https) ==
  StartsWith(as_if_https, Str(<<"h", "t", "t", "p", "s", ":", "/", "/">>))

\* Mutant: the "https://\" test is forgotten.
empty_authority_slash_only(as_if_https) ==
  StartsWith(as_if_https, Str(<<"h", "t", "t", "p", "s", ":", "/", "/", "/">>))

\* Mutant: a backslash anywhere is taken for a disguised authority.
empty_authority_any_backslash(as_if_https) ==
  \/ StartsWith(as_if_https, Str(<<"h", "t", "t", "p", "s", ":", "/", "/", "/">>))
  \/ Find(as_if_https, Ord("\\")) # -1

empty_authority(as_if_https) ==
  \/ StartsWith(as_if_https, Str(<<"h", "t", "t", "p", "s", ":", "/", "/", "/">>))
  \/ StartsWith(as_if_https, Str(<<"h", "t", "t", "p", "s", ":", "/", "/", "\\">>))

\* The literal "/.well-known/protocol-handler"
WellKnownPath ==
  Str(<<"/", ".", "w", "e", "l", "l", "-", "k", "n", "o", "w", "n", "/",
        "p", "r", "o", "t", "o", "c", "o", "l", "-", "h", "a", "n", "d", "l", "e", "r">>)

\* "target=".to_owned() extended with the percent-encoded target
params_of(t) ==
  Str(<<"t", "a", "r", "g", "e", "t", "=">>) \o utf8_percent_encode(t)

\* The parsed URL after the five setters.
fallback_url(url, t) ==
  set_fragment(
    set_query(
      set_password(set_username(set_path(url, WellKnownPath), <<>>), None),
      params_of(t)),
    None)

get_fallback(t) ==
  LET found == find_scheme(t)
      as_if_https == as_if_https_of(t, found.scheme)
      url == UrlParse(as_if_https)
  IN IF found.err # NoError THEN found.err
     ELSE IF as_if_https = None THEN Panic
     ELSE IF ~has_authority(as_if_https) THEN NoHandler
     ELSE IF empty_authority(as_if_https) THEN NoHandler
     ELSE IF ~url.ok THEN NoHandler
     ELSE Ok(Serialize(fallback_url(url, t)))

---------------------------------------------------------------------------
(* The inputs *)

\* The longest free tail of an input.
MaxTail == 3

\* The bytes a free tail is made of: delimiters of a URL, a tab (which the
\* URL parser ignores), a letter and a digit.
TailChars ==
  {Ord("/"), Ord("\\"), Ord(":"), Ord("@"), Ord("?"), Ord("#"), Ord("\t"), Ord("h"),
   Ord("1")}

\* U+00E9 in UTF-8: a two-byte character.
EAcute == <<195, 169>>

\* What an input starts with: nothing, a valid web+ scheme, the invalid
\* schemes (empty, upper case, digit, underscore, non-ASCII), web+ out of
\* place, a multi-byte character inside the prefix, and a byte that is not
\* UTF-8.
Heads ==
  { <<>>,
    Str(<<"w", "e", "b", "+", "a">>),
    Str(<<"w", "e", "b", "+">>),
    Str(<<"w", "e", "b", "+", "A">>),
    Str(<<"w", "e", "b", "+", "a", "3">>),
    Str(<<"w", "e", "b", "+", "a", "_">>),
    Str(<<"w", "e", "b", "+", "a">>) \o EAcute,
    Str(<<"x", "w", "e", "b", "+", "a">>),
    Str(<<"w">>) \o EAcute \o Str(<<"+", "a">>),
    <<169>> }

\* What may follow the head before the free tail.
Mids == { <<>>, Str(<<":", "/", "/">>) }

\* What may follow the free tail: nothing, or a query and a fragment with an
\* apostrophe and a multi-byte character.
Trails == { <<>>, Str(<<"?", "'">>) \o EAcute \o Str(<<"#", "h">>) }

\* All sequences over S of length at most n.
RECURSIVE SeqsUpTo(_, _)
SeqsUpTo(S, n) ==
  IF n = 0 THEN {<<>>}
  ELSE LET shorter == SeqsUpTo(S, n - 1)
       IN shorter \cup {<<b>> \o t : b \in S, t \in {u \in shorter : Len(u) = n - 1}}

\* The byte strings fc_open_uri is called with (no NUL: they are C strings).
Inputs ==
  {h \o m \o t \o r : h \in Heads, m \in Mids, t \in SeqsUpTo(TailChars, MaxTail),
                      r \in Trails}

---------------------------------------------------------------------------
(* fc_open_uri *)

\* No fallback computed yet.
NoFallback == [kind |-> "None", text |-> <<>>]

\* No asynchronous operation started.
NoOp == [state |-> "none", outcome |-> "none"]

\* What the platform's IAsyncOperation<bool> may come to: complete with true,
\* complete with false, or never complete.
Outcomes == {"true", "false", "never"}

\* The platform calls of fc_open_uri_inner, in program order.
Steps == <<"create_uri", "create_fallback_uri", "new_options", "set_fallback_uri", "launch">>

\* Mutant: a refused platform call is tried again.
after_call_retrying(step, ok) ==
  IF ~ok THEN step
  ELSE IF step = Steps[Len(Steps)] THEN "inner_ok"
  ELSE Steps[(CHOOSE i \in 1..Len(Steps) : Steps[i] = step) + 1]

\* The `?` after a platform call: an error leaves fc_open_uri_inner with Err,
\* success goes on to the next statement, Ok(()) after the last.
after_call(step, ok) ==
  IF ~ok THEN "inner_err"
  ELSE IF step = Steps[Len(Steps)] THEN "inner_ok"
  ELSE Steps[(CHOOSE i \in 1..Len(Steps) : Steps[i] = step) + 1]

\* Mutant: the operation's own outcome is waited for and decides the result.
after_launch_awaiting(ok, op) ==
  IF ok /\ op.outcome = "true" THEN "inner_ok" ELSE "inner_err"

\* let _ = Launcher::LaunchUriWithOptionsAsync(..)?: the operation is dropped,
\* only the synchronous Result decides where the function goes.
after_launch(ok, op) == after_call("launch", ok)

\* Mutant: an error is reported as -1.
status_of_negative(inner) == IF inner = "inner_ok" THEN 1 ELSE -1

\* match fc_open_uri_inner(uri) { Ok(_) => 1, Err(_) => 0 }
status_of(inner) == IF inner = "inner_ok" THEN 1 ELSE 0

\* The `?` after get_fallback.
after_get_fallback(res) ==
  IF res.kind = "Ok" THEN Steps[1]
  ELSE IF res.kind = "Panic" THEN "panicked"
  ELSE "inner_err"

Init ==
  /\ input \in Inputs
  /\ pc = "to_str"
  /\ target = None
  /\ fallback = NoFallback
  /\ calls = <<>>
  /\ asyncOp = NoOp
  /\ ret = -1

\* CStr::from_lt_ptr(uri).to_str(), returning 0 when it fails.
ToStr ==
  /\ pc = "to_str"
  /\ IF Utf8Valid(input)
       THEN target' = input /\ pc' = "get_fallback" /\ ret' = ret
       ELSE target' = target /\ pc' = "returned" /\ ret' = 0
  /\ UNCHANGED <<input, fallback, calls, asyncOp>>

\* let fallback = get_fallback(uri)?
GetFallback ==
  /\ pc = "get_fallback"
  /\ fallback' = get_fallback(target)
  /\ pc' = after_get_fallback(fallback')
  /\ UNCHANGED <<input, target, calls, asyncOp, ret>>

\* One platform call: it is logged with its argument and its result.
PlatformCall(step, api, arg, ok) ==
  /\ pc = step
  /\ calls' = Append(calls, [api |-> api, arg |-> arg, ok |-> ok])

\* Uri::CreateUri(&uri)?
CreateUri ==
  \E ok \in BOOLEAN :
    /\ PlatformCall("create_uri", "CreateUri", target, ok)
    /\ pc' = after_call("create_uri", ok)
    /\ UNCHANGED <<input, target, fallback, asyncOp, ret>>

\* Uri::CreateUri(&fallback)?
CreateFallbackUri ==
  \E ok \in BOOLEAN :
    /\ PlatformCall("create_fallback_uri", "CreateUri", fallback.text, ok)
    /\ pc' = after_call("create_fallback_uri", ok)
    /\ UNCHANGED <<input, target, fallback, asyncOp, ret>>

\* LauncherOptions::new()?
NewOptions ==
  \E ok \in BOOLEAN :
    /\ PlatformCall("new_options", "LauncherOptions::new", <<>>, ok)
    /\ pc' = after_call("new_options", ok)
    /\ UNCHANGED <<input, target, fallback, asyncOp, ret>>

\* options.SetFallbackUri(&fallback)?
SetFallbackUri ==
  \E ok \in BOOLEAN :
    /\ PlatformCall("set_fallback_uri", "SetFallbackUri", fallback.text, ok)
    /\ pc' = after_call("set_fallback_uri", ok)
    /\ UNCHANGED <<input, target, fallback, asyncOp, ret>>

\* Launcher::LaunchUriWithOptionsAsync(&uri, &options)?: when the request is
\* accepted the platform has an operation in flight.
Launch ==
  \E ok \in BOOLEAN, outcome \in Outcomes :
    /\ PlatformCall("launch", "LaunchUriWithOptionsAsync", target, ok)
    /\ asyncOp' = IF ok THEN [state |-> "pending", outcome |-> outcome] ELSE NoOp
    /\ pc' = after_launch(ok, asyncOp')
    /\ UNCHANGED <<input, target, fallback, ret>>

\* fc_open_uri returns the status of fc_open_uri_inner's Result.
Return ==
  /\ pc \in {"inner_ok", "inner_err"}
  /\ ret' = status_of(pc)
  /\ pc' = "returned"
  /\ UNCHANGED <<input, target, fallback, calls, asyncOp>>

\* The platform completes the operation, at a time of its own choosing.
AsyncComplete ==
  /\ asyncOp.state = "pending"
  /\ asyncOp.outcome # "never"
  /\ asyncOp' = [asyncOp EXCEPT !.state = "completed"]
  /\ UNCHANGED <<input, pc, target, fallback, calls, ret>>

Next ==
  \/ ToStr
  \/ GetFallback
  \/ CreateUri
  \/ CreateFallbackUri
  \/ NewOptions
  \/ SetFallbackUri
  \/ Launch
  \/ Return
  \/ AsyncComplete

Spec == Init /\ [][Next]_vars

TypeOK ==
  /\ pc \in {"to_str", "get_fallback", "create_uri", "create_fallback_uri", "new_options",
             "set_fallback_uri", "launch", "inner_ok", "inner_err", "returned", "panicked"}
  /\ ret \in {-1, 0, 1}

---------------------------------------------------------------------------
(* What the claims speak of, read off the target's text *)

\* get_fallback has run in this call.
Resolved == fallback # NoFallback

\* get_fallback has returned a fallback URL.
Succeeded == fallback.kind = "Ok"

Colon == Str(<<":">>)
SlashSlash == Str(<<"/", "/">>)
HttpsPrefix == Str(<<"h", "t", "t", "p", "s", ":", "/", "/">>)
QueryPrefix == Str(<<"?", "t", "a", "r", "g", "e", "t", "=">>)
Delimiters == {Ord("/"), Ord("\\"), Ord("?"), Ord("#")}

\* The target is "web+" and one or more of a-z, then its first ':'.
ValidScheme(t) ==
  \E k \in 6..Len(t) :
    /\ t[k] = Ord(":")
    /\ \A j \in 1..(k - 1) : t[j] # Ord(":")
    /\ <<t[1], t[2], t[3], t[4]>> = Str(<<"w", "e", "b", "+">>)
    /\ \A j \in 5..(k - 1) : t[j] \in Ord("a")..Ord("z")

\* The text after the target's first ':'.
AfterColon(t) == SubSeq(t, FirstOf(t, {Ord(":")}) + 1, Len(t))

\* The authority as written: what stands directly after "web+<scheme>://",
\* up to the first '/', '\', '?' or '#'.
WrittenAuthority(t) ==
  LET r == SubSeq(AfterColon(t), 3, Len(AfterColon(t)))
  IN SubSeq(r, 1, FirstOf(r, Delimiters) - 1)

\* The authority without its userinfo.
WrittenHostPort(t) ==
  SubSeq(WrittenAuthority(t), LastIndex(WrittenAuthority(t), Ord("@")) + 1,
         Len(WrittenAuthority(t)))

\* A written host or port as a URL reader takes it: without tab or newline.
AsRead(s) == SelectSeq(s, LAMBDA b : b \notin {9, 10, 13})

WrittenHost(t) ==
  AsRead(SubSeq(WrittenHostPort(t), 1, FirstOf(WrittenHostPort(t), {Ord(":")}) - 1))

WrittenPort(t) ==
  AsRead(SubSeq(WrittenHostPort(t), FirstOf(WrittenHostPort(t), {Ord(":")}) + 1,
                Len(WrittenHostPort(t))))

\* host[:port] of the written authority in serialized form (lower case, an
\* IPv4 address dotted, the default port left out); <<>> when the written
\* authority names no host.
WrittenOrigin(t) ==
  IF ~HostParse(WrittenHost(t)).ok THEN <<>>
  ELSE HostParse(WrittenHost(t)).text
       \o (IF PortParse(WrittenPort(t)) >= 0
             THEN Colon \o Decimal(PortParse(WrittenPort(t))) ELSE <<>>)

\* The host of a returned URL: what follows "https://" up to ':' or '/'.
ReturnedHost(text) ==
  LET r == SubSeq(text, Len(HttpsPrefix) + 1, Len(text))
  IN SubSeq(r, 1, FirstOf(r, {Ord(":"), Ord("/")}) - 1)

\* The query value of a returned URL: what follows "?target=".
QueryValue(text) ==
  LET q == FirstOf(text, {Ord("?")})
  IN SubSeq(text, q + Len(QueryPrefix), Len(text))

\* The bytes the COMPONENT set is said to hold: the C0 controls and DEL,
\* space, and " # < > ? ` { } / : ; = @ [ \ ] ^ | $ % & + ,
ComponentBytes ==
  (0..31) \cup {127} \cup
  {Ord(c) : c \in {" ", "\"", "#", "<", ">", "?", "GRAVE", "{", "}", "/", ":", ";", "=",
                   "@", "[", "\\", "]", "^", "|", "$", "%", "&", "+", ","}}

HexChars ==
  Str(<<"0", "1", "2", "3", "4", "5", "6", "7", "8", "9", "A", "B", "C", "D", "E", "F">>)

\* t with each byte that is in S written %XX and every other byte as it is.
RECURSIVE Escaped(_, _)
Escaped(t, S) ==
  IF t = <<>> THEN <<>>
  ELSE (IF t[1] \in S
          THEN <<Ord("%"), HexChars[(t[1] \div 16) + 1], HexChars[(t[1] % 16) + 1]>>
          ELSE <<t[1]>>)
       \o Escaped(Tail(t), S)

\* s occurs in text.
Contains(text, s) ==
  \E i \in 1..(Len(text) - Len(s) + 1) : SubSeq(text, i, i + Len(s) - 1) = s

\* The platform accepted the launch request.
LaunchAccepted ==
  \E i \in 1..Len(calls) : calls[i].api = "LaunchUriWithOptionsAsync" /\ calls[i].ok

\* No input drawn here sends the URL parser a host this model has no tables
\* for.
ParserDomain ==
  Resolved /\ has_authority(as_if_https_of(target, find_scheme(target).scheme))
    => ~UnmodelledHost(UrlSplit(as_if_https_of(target, find_scheme(target).scheme)).host)

---------------------------------------------------------------------------
(* The claims *)

\* C2: get_fallback fails with NotAnUrl exactly when the target has no ':',
\* or does not start with "web+", or the scheme name between "web+" and the
\* first ':' is empty or has a character outside a-z; what follows the colon
\* plays no part.
C2_NotAnUrlIffBadScheme ==
  Resolved => (fallback.kind = "NotAnUrl" <=> ~ValidScheme(target))

\* C2 witness: an upper-case scheme is NotAnUrl although a well-formed
\* authority follows the colon.
C2_Witness ==
  /\ fallback.kind = "NotAnUrl"
  /\ target = Str(<<"w", "e", "b", "+", "A", ":", "/", "/", "h">>)

\* C3: with a valid scheme, a target whose text after the colon does not
\* begin with "//", or begins with "///" or "//\", fails with NoHandler and
\* carries no URL.
C3_NoAuthorityIsNoHandler ==
  ( /\ Resolved
    /\ ValidScheme(target)
    /\ \/ ~StartsWith(AfterColon(target), SlashSlash)
       \/ StartsWith(AfterColon(target), Str(<<"/", "/", "/">>))
       \/ StartsWith(AfterColon(target), Str(<<"/", "/", "\\">>)) )
  => fallback = NoHandler

\* C3 witness: the backslash-disguised authority web+a://\h is refused.
C3_Witness ==
  /\ fallback.kind = "NoHandler"
  /\ target = Str(<<"w", "e", "b", "+", "a", ":", "/", "/", "\\", "h">>)

\* C8: a target whose authority is a plain lower-case host followed by a
\* backslash is accepted, and the fallback is on that host.
C8_BackslashEndsAuthority ==
  ( /\ Resolved
    /\ ValidScheme(target)
    /\ StartsWith(AfterColon(target), SlashSlash)
    /\ WrittenAuthority(target) # <<>>
    /\ \A i \in 1..Len(WrittenAuthority(target)) :
         WrittenAuthority(target)[i] \in Ord("a")..Ord("z")
    /\ StartsWith(AfterColon(target),
                  SlashSlash \o WrittenAuthority(target) \o Str(<<"\\">>)) )
  => /\ Succeeded
     /\ StartsWith(fallback.text,
                   HttpsPrefix \o WrittenAuthority(target) \o WellKnownPath \o QueryPrefix)

\* C8 witness: web+a://h\h resolves.
C8_Witness ==
  /\ Succeeded
  /\ target = Str(<<"w", "e", "b", "+", "a", ":", "/", "/", "h", "\\", "h">>)

\* C10: whenever get_fallback succeeds, the host of the returned URL is the
\* host written in the target's authority; it is never text of the target's
\* path.
C10_HostIsWrittenHost ==
  Succeeded =>
    /\ HostParse(WrittenHost(target)).ok
    /\ ReturnedHost(fallback.text) = HostParse(WrittenHost(target)).text

\* C1: on success the returned URL is https, on the host and port of the
\* target's authority, with path /.well-known/protocol-handler, without
\* credentials or fragment, and with the query "target=" followed by the
\* target percent-encoded under COMPONENT (non-ASCII bytes escaped as any
\* percent-encoding does); nothing else of the target is in it.
C1_FallbackShape ==
  Succeeded =>
    fallback.text = HttpsPrefix \o WrittenOrigin(target) \o WellKnownPath
                    \o QueryPrefix \o Escaped(target, ComponentBytes \cup (128..255))

\* C4 as stated: in the query value every byte of the target that is in
\* COMPONENT is written %XX and every byte outside COMPONENT is written as
\* it is.
C4_EscapedIffInComponent ==
  Succeeded => QueryValue(fallback.text) = Escaped(target, ComponentBytes)

\* C4 amended: in the query value every byte of the target that is in
\* COMPONENT, is not ASCII (0x80..0xFF) or is the apostrophe is written %XX
\* with upper-case hexadecimal digits, and every other byte is written as it
\* is.
C4_EscapedSet ==
  Succeeded =>
    QueryValue(fallback.text)
      = Escaped(target, ComponentBytes \cup (128..255) \cup {Ord("'")})

\* C4 witness: a fallback for a target that holds bytes of COMPONENT, an
\* apostrophe, a two-byte character and plain letters.
C4_Witness ==
  /\ Succeeded
  /\ target = Str(<<"w", "e", "b", "+", "a", ":", "/", "/", "h", "?", "'">>)
              \o EAcute \o Str(<<"#", "h">>)

\* C5: fc_open_uri returns 0 or 1, and 1 exactly when the input is UTF-8,
\* get_fallback succeeded, and CreateUri of the target, CreateUri of the
\* fallback, LauncherOptions::new, SetFallbackUri and the launch request were
\* each accepted; both get_fallback errors return 0.
C5_ReturnsZeroOrOne ==
  pc = "returned" =>
    /\ ret \in {0, 1}
    /\ ret = 1 <=> /\ Utf8Valid(input)
                   /\ Succeeded
                   /\ Len(calls) = 5
                   /\ \A i \in 1..Len(calls) : calls[i].ok
    /\ fallback.kind \in {"NotAnUrl", "NoHandler"} => ret = 0

\* C5 witness: a call that returned 1.
C5_Witness == pc = "returned" /\ ret = 1 /\ LaunchAccepted

\* C6: for every string get_fallback ends in a complete fallback URL, in
\* NotAnUrl or in NoHandler: no slice or replace_range panics, an error
\* carries no URL, and a returned URL has its host, the well-known path and
\* the target query, and no fragment.
C6_TotalNoPanic ==
  /\ pc # "panicked"
  /\ pc \in {"to_str", "get_fallback"} \/ Resolved \/ ~Utf8Valid(input)
  /\ Resolved =>
       /\ fallback.kind \in {"Ok", "NotAnUrl", "NoHandler"}
       /\ ~Succeeded => fallback.text = <<>>
       /\ Succeeded =>
            /\ StartsWith(fallback.text, HttpsPrefix)
            /\ ReturnedHost(fallback.text) # <<>>
            /\ Contains(fallback.text, WellKnownPath \o QueryPrefix)
            /\ ~Contains(fallback.text, Str(<<"#">>))

\* C6 witness: a target with a two-byte character inside the "web+" prefix
\* has been resolved (to NotAnUrl).
C6_Witness ==
  /\ Resolved
  /\ StartsWith(target, Str(<<"w">>) \o EAcute \o Str(<<"+", "a", ":">>))

\* C7: once the launch request is accepted fc_open_uri is free to return and
\* returns 1, whether the asynchronous operation is pending, has completed
\* with true or false, or never completes.
C7_ReturnIgnoresAsync ==
  LaunchAccepted =>
    /\ pc \in {"inner_ok", "returned"}
    /\ pc = "inner_ok" => ENABLED Return
    /\ pc = "returned" => ret = 1

\* C7 witness: 1 was returned and the operation then completed with false.
C7_Witness ==
  /\ pc = "returned"
  /\ ret = 1
  /\ asyncOp = [state |-> "completed", outcome |-> "false"]

\* C9: the launch facility is called at most once in a call, as the fifth
\* platform call, after get_fallback succeeded and CreateUri of the target,
\* CreateUri of the fallback, LauncherOptions::new and SetFallbackUri with the
\* fallback were accepted in that order; nothing is called after a failure,
\* nor at all without a fallback.
C9_LaunchOnceAfterSetup ==
  /\ Cardinality({i \in 1..Len(calls) : calls[i].api = "LaunchUriWithOptionsAsync"}) <= 1
  /\ \A i \in 1..Len(calls) :
       /\ \A j \in 1..(i - 1) : calls[j].ok
       /\ Succeeded
       /\ calls[i].api = "LaunchUriWithOptionsAsync" =>
            /\ i = 5
            /\ calls[1] = [api |-> "CreateUri", arg |-> target, ok |-> TRUE]
            /\ calls[2] = [api |-> "CreateUri", arg |-> fallback.text, ok |-> TRUE]
            /\ calls[3] = [api |-> "LauncherOptions::new", arg |-> <<>>, ok |-> TRUE]
            /\ calls[4] = [api |-> "SetFallbackUri", arg |-> fallback.text, ok |-> TRUE]
            /\ calls[5].arg = target
  /\ calls # <<>> => Utf8Valid(input) /\ Succeeded
  /\ pc = "returned" /\ ret = 0 => asyncOp = NoOp

\* C9 witness: the launch request was refused and fc_open_uri returned
\* without a second attempt.
C9_Witness ==
  /\ pc = "returned"
  /\ Len(calls) = 5
  /\ ~calls[5].ok

====
